---------------------------- MODULE Spec2Model ----------------------------
(***************************************************************************)
(* Model of the three microphone visualizer programs of                    *)
(* "Interference sound/mic_rms_visualizer":                                *)
(*                                                                         *)
(*   src/bin/mic_2d_A_vs_x.rs  positional (2D) program       -> Spec2D     *)
(*   src/main.rs               windowed program              -> SpecWin    *)
(*   src/bin/mic_3d.rs         3D program                    -> Spec3D     *)
(*                                                                         *)
(* f32 quantities (samples, amplitudes, slider positions) are fixed-point  *)
(* integers in units of 1/1000.  Each program has an audio thread (device  *)
(* set-up, then the cpal input callback) and a render thread; a step of    *)
(* the model is one access to the state the two threads share (a channel   *)
(* operation or a mutex-protected access) together with the thread-local   *)
(* computation around it.                                                  *)
(***************************************************************************)
EXTENDS Integers, Sequences, FiniteSets

\* ------------------------------------------------------------------ bounds

\* capacity of the crossbeam channel, channel::bounded(1024), scaled down
ChanCap == 2

\* ------------------------------------------------------- program constants

\* the gating threshold 0.01 (rms > 0.01, a > 0.01), in 1/1000
Gate == 10

\* positions the slider (range 0.0..=100.0, initially 0.0) is moved to:
\* 0.000 and 0.004 round to 0.00, 0.006 rounds to 0.01
SliderXs == {0, 4, 6}
\* buffers the 2D callback is handed: empty, silent, at the gate (rms 0.010),
\* and two loud ones (rms 0.400 and 0.282)
Buffers2D == {<<>>, <<0>>, <<10, 10>>, <<-400>>, <<-400, 0>>}
\* outcomes of opening the device and starting the stream
StartOutcomes == {"ok", "nodevice", "config", "build", "play"}

\* ------------------------------------------------------------ pure helpers

Abs(n) == IF n < 0 THEN -n ELSE n

Min(a, b) == IF a < b THEN a ELSE b

RECURSIVE SumSq(_)
\* data.iter().map(|&s| s * s).sum(), in 1/1000000
SumSq(data) ==
    IF data = <<>> THEN 0 ELSE Head(data) * Head(data) + SumSq(Tail(data))

\* f32::sqrt on fixed point: the root of n (1/1000000) in 1/1000
ISqrt(n) == CHOOSE r \in 0..1000 : r * r <= n /\ (r + 1) * (r + 1) > n

\* the last n elements of s
LastN(s, n) == SubSeq(s, Len(s) - n + 1, Len(s))

\* ===================== positional (2D) program: mic_2d_A_vs_x.rs ==========

VARIABLES
    audio2,      \* audio thread: "init", "running", or how it ended
    chan,        \* crossbeam channel sender -> receiver; each message also
                 \* carries lk, the value of mic_locked when it was published
    x_position,  \* Arc<Mutex<f32>> shared slider position
    mic_locked,  \* AudioPlotApp::mic_locked
    values,      \* AudioPlotApp::values
    cb,          \* the input callback: idle, about to send, or blocked in send
    tk,          \* AudioPlotApp::update: "idle", "recv", "sort", "ui"
    lastRecv,    \* history: what the latest try_recv of this tick did
    lastAmp,     \* history: rounded position -> amplitude last ingested there
    preSort      \* history: values as it was before this tick's sort

vars2 == <<audio2, chan, x_position, mic_locked, values, cb, tk, lastRecv,
           lastAmp, preSort>>

\* windowed program (main.rs)
VARIABLES
    audioW,      \* audio thread: "init", "running", or how it ended
    channelsW,   \* config.channels()
    mutexW,      \* holder of the Mutex<AudioData>: "free", "cb", "ui"
    samples,     \* AudioData::samples
    rms,         \* AudioData::rms
    amplitude,   \* AudioData::amplitude
    cbW,         \* sample_fn: position, buffer, loop index, sum, max
    uiW,         \* AppState::update: "idle", "label", "plot"
    hist,        \* history: every scalar pushed onto samples, in order
    lastDone     \* history: the buffer of the callback that completed last

varsW == <<audioW, channelsW, mutexW, samples, rms, amplitude, cbW, uiW, hist,
           lastDone>>

\* 3D program (mic_3d.rs)
VARIABLES
    audio3,       \* audio thread: "init", "running", or how it ended
    channels3,    \* config.channels()
    rx,           \* mpsc channel tx -> rx; each message also carries no, the
                  \* number of the frame it was computed from
    mic_position, \* Point2 moved by W/S/A/D, in steps of 0.05
    samples3,     \* Vec<SamplePoint>; each also carries no and latest, the
                  \* frame it holds and the newest frame at the Space press
    frames3       \* history: number of frames the callback has produced

vars3 == <<audio3, channels3, rx, mic_position, samples3, frames3>>

vars == <<vars2, varsW, vars3>>

\* (x * 100.0).round() / 100.0 : round to 2 decimals, half away from zero
Round2(x) == IF x >= 0 THEN ((x + 5) \div 10) * 10 ELSE -(((-x + 5) \div 10) * 10)

RoundedXs == {Round2(x) : x \in SliderXs}

\* (sum of squares / data.len()).sqrt() over every sample of the buffer
Rms2D(data) == ISqrt(SumSq(data) \div Len(data))

\* values.iter_mut().find(|(ex, _)| round(ex) == x_rounded): first match, 0 if none
FindRounded(vals, xr) ==
    IF \E i \in 1..Len(vals) : Round2(vals[i].x) = xr
    THEN CHOOSE i \in 1..Len(vals) :
            /\ Round2(vals[i].x) = xr
            /\ \A j \in 1..(i - 1) : Round2(vals[j].x) # xr
    ELSE 0

\* faulty variant: the stored position is compared with the unrounded reading
IngestReadingRawCompare(vals, x, a) ==
    IF a > Gate
    THEN IF \E i \in 1..Len(vals) : vals[i].x = x
         THEN LET i == CHOOSE i \in 1..Len(vals) : vals[i].x = x
              IN  [vals EXCEPT ![i].a = a]
         ELSE Append(vals, [x |-> Round2(x), a |-> a])
    ELSE vals

\* the body of the unlocked while-let loop for one reading (x, a)
IngestReading(vals, x, a) ==
    IF a > Gate
    THEN LET xr == Round2(x)
             i  == FindRounded(vals, xr)
         IN  IF i # 0
             THEN [vals EXCEPT ![i].a = a]
             ELSE Append(vals, [x |-> xr, a |-> a])
    ELSE vals

\* faulty variant: the locked branch records the reading it drains
DiscardReadingRecords(vals, x, a) == IngestReading(vals, x, a)

\* the body of the locked while-let loop: the reading is dropped
DiscardReading(vals, x, a) == vals

RECURSIVE InsertByX(_, _)
\* e placed after every element whose x is <= e.x (s is sorted)
InsertByX(s, e) ==
    IF s = <<>> THEN <<e>>
    ELSE IF Head(s).x <= e.x THEN <<Head(s)>> \o InsertByX(Tail(s), e)
    ELSE <<e>> \o s

RECURSIVE SortFrom(_, _)
SortFrom(sorted, rest) ==
    IF rest = <<>> THEN sorted
    ELSE SortFrom(InsertByX(sorted, Head(rest)), Tail(rest))

\* faulty variant: the sort is left out
SortByXSkipped(vals) == vals

\* values.sort_by(|(x1,_),(x2,_)| x1.partial_cmp(x2)...): stable, ascending x
SortByX(vals) == SortFrom(<<>>, vals)

Init2D ==
    /\ audio2 = "init"
    /\ chan = <<>>
    /\ x_position = 0
    /\ mic_locked = TRUE
    /\ values = <<>>
    /\ cb = [pc |-> "idle", x |-> 0, a |-> 0]
    /\ tk = "idle"
    /\ lastRecv = "none"
    /\ lastAmp = [p \in RoundedXs |-> 0]
    /\ preSort = <<>>

\* capture_audio up to stream.play(): the device is opened once; on a
\* failure the audio thread ends (panic of expect, or Err logged by main's
\* spawned closure) while the main thread goes on into run_native
AudioStart2D ==
    /\ audio2 = "init"
    /\ \E o \in StartOutcomes : audio2' = IF o = "ok" THEN "running" ELSE o
    /\ UNCHANGED <<chan, x_position, mic_locked, values, cb, tk, lastRecv,
                   lastAmp, preSort, varsW, vars3>>

\* input callback, lines 51-56: empty check, rms, gate, read of x_position
Callback2D ==
    /\ audio2 = "running"
    /\ cb.pc = "idle"
    /\ \E data \in Buffers2D :
          IF data = <<>> THEN cb' = cb
          ELSE LET r == Rms2D(data)
               IN  IF r > Gate
                   THEN cb' = [pc |-> "send", x |-> x_position, a |-> r]
                   ELSE cb' = cb
    /\ UNCHANGED <<audio2, chan, x_position, mic_locked, values, tk, lastRecv,
                   lastAmp, preSort, varsW, vars3>>

\* sender.send((x, rms)), line 57: crossbeam's send on a bounded channel
\* waits while the channel is full
CallbackSend2D ==
    /\ cb.pc = "send"
    /\ IF Len(chan) < ChanCap
       THEN /\ chan' = Append(chan, [x |-> cb.x, a |-> cb.a, lk |-> mic_locked])
            /\ cb' = [pc |-> "idle", x |-> 0, a |-> 0]
       ELSE /\ cb' = [cb EXCEPT !.pc = "blocked"]
            /\ chan' = chan
    /\ UNCHANGED <<audio2, x_position, mic_locked, values, tk, lastRecv,
                   lastAmp, preSort, varsW, vars3>>

\* the blocked send completes once the receiver has made room
CallbackWake2D ==
    /\ cb.pc = "blocked"
    /\ Len(chan) < ChanCap
    /\ chan' = Append(chan, [x |-> cb.x, a |-> cb.a, lk |-> mic_locked])
    /\ cb' = [pc |-> "idle", x |-> 0, a |-> 0]
    /\ UNCHANGED <<audio2, x_position, mic_locked, values, tk, lastRecv,
                   lastAmp, preSort, varsW, vars3>>

\* update() is entered, line 80
TickBegin2D ==
    /\ tk = "idle"
    /\ tk' = "recv"
    /\ lastRecv' = "none"
    /\ UNCHANGED <<audio2, chan, x_position, mic_locked, values, cb, lastAmp,
                   preSort, varsW, vars3>>

\* one receiver.try_recv() of either while-let loop, lines 82-100
TickRecv2D ==
    /\ tk = "recv"
    /\ IF chan = <<>>
       THEN /\ tk' = "sort"
            /\ UNCHANGED <<chan, values, lastRecv, lastAmp>>
       ELSE LET m == Head(chan)
            IN  /\ chan' = Tail(chan)
                /\ lastRecv' = IF mic_locked THEN "discard"
                               ELSE IF m.a <= Gate THEN "gated"
                               ELSE IF FindRounded(values, Round2(m.x)) # 0
                                    THEN "overwrite" ELSE "push"
                /\ tk' = tk
                /\ IF ~mic_locked
                   THEN /\ values' = IngestReading(values, m.x, m.a)
                        /\ lastAmp' = IF m.a > Gate
                                      THEN [lastAmp EXCEPT ![Round2(m.x)] = m.a]
                                      ELSE lastAmp
                   ELSE /\ values' = DiscardReading(values, m.x, m.a)
                        /\ lastAmp' = lastAmp
    /\ UNCHANGED <<audio2, x_position, mic_locked, cb, preSort, varsW, vars3>>

\* the sort of lines 102-104
TickSort2D ==
    /\ tk = "sort"
    /\ preSort' = values
    /\ values' = SortByX(values)
    /\ tk' = "ui"
    /\ UNCHANGED <<audio2, chan, x_position, mic_locked, cb, lastRecv, lastAmp,
                   varsW, vars3>>

\* the panel of lines 106-141: slider, lock toggle, plot of values
TickUi2D ==
    /\ tk = "ui"
    /\ \E nx \in SliderXs : x_position' = nx
    /\ \E l \in BOOLEAN : mic_locked' = l
    /\ tk' = "idle"
    /\ preSort' = <<>>
    /\ UNCHANGED <<audio2, chan, values, cb, lastRecv, lastAmp, varsW, vars3>>

Next2D ==
    \/ AudioStart2D
    \/ Callback2D
    \/ CallbackSend2D
    \/ CallbackWake2D
    \/ TickBegin2D
    \/ TickRecv2D
    \/ TickSort2D
    \/ TickUi2D


\* ========================= windowed program: main.rs =====================

\* capacity of the sample window (samples.len() > 500), scaled down
WindowCap == 2
\* longest callback buffer of the windowed program (interleaved samples)
MaxBufW == 3
\* most scalars pushed in a run of the model
MaxHist == 5

\* sample values of a windowed buffer: 0.0, 0.3, -0.4
SamplesW == {0, 300, -400}
\* channel counts a default input configuration may have
ChannelCounts == {1, 2}
\* 0.0 / 0.0 of line 97 for an empty buffer
NaN == -1

BuffersW == UNION {[1..n -> SamplesW] : n \in 0..MaxBufW}

\* indices at which data.chunks(channels) starts a frame
FrameStarts(data, ch) == {i \in 1..Len(data) : (i - 1) % ch = 0}

RECURSIVE Chan0From(_, _, _)
Chan0From(data, ch, i) ==
    IF i > Len(data) THEN <<>> ELSE <<data[i]>> \o Chan0From(data, ch, i + ch)

\* frame[0] of every chunk of data.chunks(channels), in order
Chan0(data, ch) == Chan0From(data, ch, 1)

RECURSIVE MaxAbs(_)
\* fold(0.0, f32::max) over the absolute values
MaxAbs(s) ==
    IF s = <<>> THEN 0
    ELSE LET m == MaxAbs(Tail(s))
         IN  IF Abs(Head(s)) > m THEN Abs(Head(s)) ELSE m

\* the peak of the channel-0 samples (max of main.rs, max of mic_3d.rs)
PeakCh0(data, ch) == MaxAbs(Chan0(data, ch))

\* (sum / data.len() as f32).sqrt(), line 97
RmsOf(sum, n) == IF n = 0 THEN NaN ELSE ISqrt(sum \div n)

\* rms a whole run of sample_fn leaves: the channel-0 squares over data.len()
RmsW(data, ch) == RmsOf(SumSq(Chan0(data, ch)), Len(data))

\* faulty variant: the window is trimmed one element early
EvictFrontEarly(q) == IF Len(q) >= WindowCap THEN Tail(q) ELSE q

\* if buffer.samples.len() > 500 { buffer.samples.pop_front(); }
EvictFront(q) == IF Len(q) > WindowCap THEN Tail(q) ELSE q

\* faulty variant: the shared data is taken without mutual exclusion
MutexAcquirableAlways(holder) == TRUE

\* Mutex::lock() returns once no other thread holds the guard
MutexAcquirable(holder) == holder = "free"

CbIdleW == [pc |-> "idle", data |-> <<>>, i |-> 1, sum |-> 0, max |-> 0]

InitWin ==
    /\ audioW = "init"
    /\ channelsW = 1
    /\ mutexW = "free"
    /\ samples = <<>>
    /\ rms = 0
    /\ amplitude = 0
    /\ cbW = CbIdleW
    /\ uiW = "idle"
    /\ hist = <<>>
    /\ lastDone = [done |-> FALSE, data |-> <<>>, ch |-> 1]

\* start_audio_thread, lines 75-78 and 102-106: every failure is a panic of
\* the spawned thread (expect / unwrap); main goes on into run_native
AudioStartW ==
    /\ audioW = "init"
    /\ \E o \in StartOutcomes :
          /\ audioW' = IF o = "ok" THEN "running" ELSE o
          /\ \E c \in ChannelCounts :
                channelsW' = IF o \in {"nodevice", "config"} THEN channelsW ELSE c
    /\ UNCHANGED <<mutexW, samples, rms, amplitude, cbW, uiW, hist, lastDone,
                   vars2, vars3>>

\* sample_fn is called with a buffer and takes the lock, lines 80-84
CallbackLockW ==
    /\ audioW = "running"
    /\ cbW.pc = "idle"
    /\ MutexAcquirable(mutexW)
    /\ \E data \in BuffersW :
          /\ Len(hist) + Cardinality(FrameStarts(data, channelsW)) <= MaxHist
          /\ cbW' = [pc |-> "loop", data |-> data, i |-> 1, sum |-> 0, max |-> 0]
    /\ mutexW' = "cb"
    /\ UNCHANGED <<audioW, channelsW, samples, rms, amplitude, uiW, hist,
                   lastDone, vars2, vars3>>

\* one frame of the loop up to push_back, lines 86-90
CallbackPushW ==
    /\ cbW.pc = "loop"
    /\ cbW.i <= Len(cbW.data)
    /\ LET s == cbW.data[cbW.i]
       IN  /\ cbW' = [cbW EXCEPT !.pc = "evict",
                                 !.sum = @ + s * s,
                                 !.max = IF Abs(s) > @ THEN Abs(s) ELSE @]
           /\ samples' = Append(samples, s)
           /\ hist' = Append(hist, s)
    /\ UNCHANGED <<audioW, channelsW, mutexW, rms, amplitude, uiW, lastDone,
                   vars2, vars3>>

\* the eviction of lines 92-94, then the next chunk
CallbackEvictW ==
    /\ cbW.pc = "evict"
    /\ samples' = EvictFront(samples)
    /\ cbW' = [cbW EXCEPT !.pc = "loop", !.i = @ + channelsW]
    /\ UNCHANGED <<audioW, channelsW, mutexW, rms, amplitude, uiW, hist,
                   lastDone, vars2, vars3>>

\* buffer.rms = ..., line 97
CallbackSetRmsW ==
    /\ cbW.pc = "loop"
    /\ cbW.i > Len(cbW.data)
    /\ rms' = RmsOf(cbW.sum, Len(cbW.data))
    /\ cbW' = [cbW EXCEPT !.pc = "amp"]
    /\ UNCHANGED <<audioW, channelsW, mutexW, samples, amplitude, uiW, hist,
                   lastDone, vars2, vars3>>

\* buffer.amplitude = max, line 98; the guard is dropped as sample_fn returns
CallbackSetAmpW ==
    /\ cbW.pc = "amp"
    /\ amplitude' = cbW.max
    /\ lastDone' = [done |-> TRUE, data |-> cbW.data, ch |-> channelsW]
    /\ cbW' = CbIdleW
    /\ mutexW' = "free"
    /\ UNCHANGED <<audioW, channelsW, samples, rms, uiW, hist, vars2, vars3>>

\* update() takes the lock, line 40
UiLockW ==
    /\ uiW = "idle"
    /\ MutexAcquirable(mutexW)
    /\ mutexW' = "ui"
    /\ uiW' = "label"
    /\ UNCHANGED <<audioW, channelsW, samples, rms, amplitude, cbW, hist,
                   lastDone, vars2, vars3>>

\* the label reads data.rms and data.amplitude, lines 41-44
UiLabelW ==
    /\ uiW = "label"
    /\ uiW' = "plot"
    /\ UNCHANGED <<audioW, channelsW, mutexW, samples, rms, amplitude, cbW, hist,
                   lastDone, vars2, vars3>>

\* the plot reads data.samples, lines 58-63; the guard is dropped with the panel
UiPlotW ==
    /\ uiW = "plot"
    /\ uiW' = "idle"
    /\ mutexW' = "free"
    /\ UNCHANGED <<audioW, channelsW, samples, rms, amplitude, cbW, hist,
                   lastDone, vars2, vars3>>

NextWin ==
    \/ AudioStartW
    \/ CallbackLockW
    \/ CallbackPushW
    \/ CallbackEvictW
    \/ CallbackSetRmsW
    \/ CallbackSetAmpW
    \/ UiLockW
    \/ UiLabelW
    \/ UiPlotW

\* ============================ 3D program: mic_3d.rs ======================

\* most amplitudes queued in the unbounded mpsc channel in a run of the model
MaxQueue3 == 2
\* most frames the 3D callback produces in a run of the model
MaxFrames3 == 3
\* most samples pushed by Space in a run of the model
MaxSamples3 == 2
\* the mic dot stays within this many 0.05 steps of the origin
MaxMic == 1

\* buffers the 3D callback is handed: empty, one frame, two samples, three
Buffers3D == {<<>>, <<300>>, <<300, -400>>, <<-400, 0, 300>>}

Init3D ==
    /\ audio3 = "init"
    /\ channels3 = 1
    /\ rx = <<>>
    /\ mic_position = [x |-> 0, y |-> 0]
    /\ samples3 = <<>>
    /\ frames3 = 0

\* the audio thread of main, lines 25-43: every failure is a panic of the
\* spawned thread (expect / unwrap); main goes on into the render loop
AudioStart3D ==
    /\ audio3 = "init"
    /\ \E o \in StartOutcomes :
          /\ audio3' = IF o = "ok" THEN "running" ELSE o
          /\ \E c \in ChannelCounts :
                channels3' = IF o \in {"nodevice", "config"} THEN channels3 ELSE c
    /\ UNCHANGED <<rx, mic_position, samples3, frames3, vars2, varsW>>

\* the input callback, lines 33-38: peak of channel 0, sent without waiting
Callback3D ==
    /\ audio3 = "running"
    /\ frames3 < MaxFrames3
    /\ Len(rx) < MaxQueue3
    /\ \E data \in Buffers3D :
          rx' = Append(rx, [amp |-> PeakCh0(data, channels3), no |-> frames3 + 1])
    /\ frames3' = frames3 + 1
    /\ UNCHANGED <<audio3, channels3, mic_position, samples3, vars2, varsW>>

\* Key::W / S / A / D, lines 71-74
KeyMove3D ==
    /\ \E d \in {[x |-> 0, y |-> 1], [x |-> 0, y |-> -1],
                 [x |-> -1, y |-> 0], [x |-> 1, y |-> 0]} :
          /\ Abs(mic_position.x + d.x) <= MaxMic
          /\ Abs(mic_position.y + d.y) <= MaxMic
          /\ mic_position' = [x |-> mic_position.x + d.x, y |-> mic_position.y + d.y]
    /\ UNCHANGED <<audio3, channels3, rx, samples3, frames3, vars2, varsW>>

\* Key::Space, lines 79-86: one try_recv, and a sample if it yields a value
KeySpace3D ==
    /\ Len(samples3) < MaxSamples3
    /\ IF rx = <<>>
       THEN UNCHANGED <<rx, samples3>>
       ELSE /\ rx' = Tail(rx)
            /\ samples3' = Append(samples3,
                  [position |-> mic_position, amplitude |-> Head(rx).amp,
                   no |-> Head(rx).no, latest |-> frames3])
    /\ UNCHANGED <<audio3, channels3, mic_position, frames3, vars2, varsW>>

\* Key::R, lines 87-92: samples.clear()
KeyReset3D ==
    /\ samples3' = <<>>
    /\ UNCHANGED <<audio3, channels3, rx, mic_position, frames3, vars2, varsW>>

Next3D ==
    \/ AudioStart3D
    \/ Callback3D
    \/ KeyMove3D
    \/ KeySpace3D
    \/ KeyReset3D

\* ============================= specifications ============================

Init == Init2D /\ InitWin /\ Init3D

Spec2D == Init /\ [][Next2D]_vars

SpecWin == Init /\ [][NextWin]_vars

Spec3D == Init /\ [][Next3D]_vars

\* ================================ claims =================================

\* C1: in the 2D program no step of a render tick that runs with mic_locked
\* true changes values (length, order, positions, amplitudes): values is the
\* same before and after the tick, whatever the callback has published.
C1_LockedTickKeepsValues ==
    [][(mic_locked /\ tk # "idle") => values' = values]_vars

\* C1 witness: a locked tick has discarded a reading and sorted, with two
\* records held
C1_Witness ==
    mic_locked /\ tk = "ui" /\ lastRecv = "discard" /\ Len(values) >= 2

\* C2 (as claimed): a reading published while mic_locked was true is only
\* ever taken off the channel by a locked tick, so it never reaches values.
C2_LockedReadingNeverIngested ==
    [][(chan # <<>> /\ chan' = Tail(chan) /\ Head(chan).lk) => mic_locked]_vars

\* C3 (as claimed): the callback's publish step never waits on the render
\* thread.
C3_CallbackNeverBlocks == cb.pc # "blocked"

\* C4 (as claimed): once device set-up has failed the process is gone: no
\* render tick is entered any more.
C4_FailureEndsRenderLoop ==
    [][(audio2 \notin {"init", "running"}) => ~(tk = "idle" /\ tk' = "recv")]_vars

\* C5: whenever the render thread reads the shared data of the windowed
\* program, the queue holds exactly the last min(N, WindowCap) of the N
\* scalars inserted so far, in arrival order, and so never more than
\* WindowCap.
C5_WindowHoldsLastN ==
    uiW # "idle" =>
        /\ Len(samples) = Min(Len(hist), WindowCap)
        /\ Len(samples) <= WindowCap
        /\ samples = LastN(hist, Min(Len(hist), WindowCap))

\* C5 witness: the render thread reads after more than WindowCap inserts
C5_Witness == uiW = "plot" /\ Len(hist) > WindowCap + 1

\* C6: values holds at most one record per position rounded to 2 decimals,
\* the record's amplitude is that of the reading ingested last at that
\* rounded position, and there are exactly as many records as rounded
\* positions ingested (a repeated position adds none).
C6_OneRecordPerRoundedPosition ==
    /\ \A i, j \in 1..Len(values) :
          i # j => Round2(values[i].x) # Round2(values[j].x)
    /\ \A i \in 1..Len(values) :
          /\ Round2(values[i].x) \in RoundedXs
          /\ values[i].a = lastAmp[Round2(values[i].x)]
    /\ Len(values) = Cardinality({p \in RoundedXs : lastAmp[p] # 0})

\* C6 witness: an unlocked tick has just overwritten the amplitude of one of
\* two records
C6_Witness == ~mic_locked /\ lastRecv = "overwrite" /\ Len(values) = 2

\* the whole-number-of-callbacks part of C7: the render thread reads while no
\* callback is under way, and rms and amplitude are those of the callback
\* that completed last (the initial values before any)
FieldsOfLastCallback ==
    /\ cbW.pc = "idle"
    /\ IF lastDone.done
       THEN /\ rms = RmsW(lastDone.data, lastDone.ch)
            /\ amplitude = PeakCh0(lastDone.data, lastDone.ch)
       ELSE rms = 0 /\ amplitude = 0 /\ samples = <<>>

\* C7 (as claimed): every read by the render thread sees the fields of the
\* last completed callback and a queue that ends with all of that callback's
\* channel-0 samples.
C7_QueueHoldsWholeFrame ==
    uiW # "idle" =>
        /\ FieldsOfLastCallback
        /\ LET c0 == Chan0(lastDone.data, lastDone.ch)
           IN  /\ Len(samples) >= Len(c0)
               /\ LastN(samples, Len(c0)) = c0

\* C7 (amended): every read by the render thread sees the fields of the last
\* completed callback and a queue that ends with the last min(k, WindowCap)
\* of that callback's k channel-0 samples.
C7_QueueHoldsFrameTail ==
    uiW # "idle" =>
        /\ FieldsOfLastCallback
        /\ LET c0 == Chan0(lastDone.data, lastDone.ch)
               k  == Min(Len(c0), WindowCap)
           IN  /\ Len(samples) >= k
               /\ LastN(samples, k) = LastN(c0, k)

\* C7 witness: the render thread reads after a callback of two or more
\* frames whose rms and peak differ
C7_Witness ==
    /\ uiW = "label"
    /\ lastDone.done
    /\ Len(Chan0(lastDone.data, lastDone.ch)) >= 2
    /\ rms # amplitude

IsSortedByX(vals) ==
    \A i, j \in 1..Len(vals) : i < j => vals[i].x <= vals[j].x

\* the records of vals at position p, in order
AtX(vals, p) == SelectSeq(vals, LAMBDA r : r.x = p)

\* C8: when a tick builds the plot points, values is sorted ascending by
\* position and is a reordering of what the tick had before the sort in
\* which records of equal position keep their order.
C8_SortedWhenPlotted ==
    tk = "ui" =>
        /\ IsSortedByX(values)
        /\ Len(values) = Len(preSort)
        /\ \A p \in RoundedXs : AtX(values, p) = AtX(preSort, p)

\* C8 witness: the sort of this tick has reordered the records
C8_Witness == tk = "ui" /\ values # preSort

AllSame(data) == \A i \in 1..Len(data) : data[i] = data[1]

\* C9 (as claimed): for a non-empty buffer of identical samples v the rms the
\* callback computes is |v| (0 for silence), for every channel count, in the
\* windowed program and in the 2D program.
C9_RmsOfConstantBuffer ==
    /\ (cbW.pc = "idle" /\ lastDone.done /\ lastDone.data # <<>>
            /\ AllSame(lastDone.data))
         => rms = Abs(lastDone.data[1])
    /\ \A data \in Buffers2D :
          (data # <<>> /\ AllSame(data)) => Rms2D(data) = Abs(data[1])

\* C10 (as claimed, 3D program): the sample a Space press pushes holds the
\* amplitude of the newest frame the callback has produced at that moment.
C10_SampleHoldsCurrentFrame ==
    \A i \in 1..Len(samples3) : samples3[i].no = samples3[i].latest

=============================================================================
